---- MODULE Spec2Model ----
(***************************************************************************)
(* Print-order workflow: the record store (job_groups, jobs,               *)
(* daily_summary), the storage bucket, one customer session (CustomerApp)  *)
(* and one shopkeeper dashboard session.  Three dashboard implementations  *)
(* exist in the sources: src/pages/ShopkeeperDashboard.tsx, and the        *)
(* components at lines 560 and 1006 of src/pages/PrintPreviewPage.tsx;     *)
(* `variant` says which one is deployed.  The customer page exists twice   *)
(* as well: src/pages/CustomerApp.tsx (the component at line 336) and the  *)
(* copy of it at line 135 of src/pages/Index.tsx, which prices a job       *)
(* differently; `customerPage` says which one is mounted.                  *)
(* The first component of CustomerApp.tsx (line 25), a demonstration that  *)
(* keeps its files in memory and never reaches the record store, is not    *)
(* modelled.                                                               *)
(*                                                                         *)
(* The record store executes every request it is sent: the row level       *)
(* security policies of the schema are not modelled, since the role the    *)
(* client connects with is configured outside these sources.               *)
(***************************************************************************)
EXTENDS Integers, Sequences, FiniteSets, Bags, TLC

\* ---------------------------------------------------------------- bounds
MaxGroups == 2      \* job_groups rows ever created
MaxJobs == 3        \* jobs rows ever created
MaxBatch == 2       \* files dropped in one upload
MaxDay == 1         \* calendar days after day 0
MaxRequests == 2    \* status updates issued and not yet served
MaxExprLen == 3     \* characters typed into the page range input
MaxPages == 3       \* pages getPageCount reports for a document
MaxRangeLen == 5    \* characters of a page range when only the range varies

NULL == 0
GroupIds == 1..MaxGroups
JobIds == 1..MaxJobs
Dates == 0..MaxDay

SD == "ShopkeeperDashboard"
PPP == "PrintPreviewPage"
PPP560 == "PrintPreviewPage:560"
Variants == {SD, PPP, PPP560}

CustomerApp == "CustomerApp"
Index == "Index"
CustomerPages == {CustomerApp, Index}

VARIABLES
  today,              \* new Date().toISOString().split("T")[0]
  job_groups,         \* table public.job_groups
  jobs,               \* table public.jobs
  daily_summary,      \* table public.daily_summary
  documents,          \* storage bucket "documents": file ids of its objects
  nextGroup,          \* gen_random_uuid() for job_groups: next fresh id
  nextJob,            \* crypto.randomUUID() for files: next fresh id
  customerPage,       \* which customer page is mounted
  currentJobGroupId,  \* CustomerApp state
  uploadedFiles,      \* CustomerApp state
  configuringFileId,  \* CustomerApp state
  resetPending,       \* the 3000 ms timer armed by handleConfirmPayment
  errors,             \* PrintRecipeForm state: messages of the last validation
  variant,            \* which dashboard component is mounted
  jobGroups,          \* dashboard state: groups with their jobs nested
  requests,           \* status-update clicks whose handler has not run yet
  toast,              \* title of the dashboard's last toast, "" before the first
  dailySummaries,     \* dashboard state: the daily_summary rows last loaded
  dateFilter,         \* dashboard state: the date both ends of the filter hold
  counted,            \* history: per job, times it was added to a summary
  usersCounted,       \* history: per group, times it was added to total_users
  eodRemoveErrors     \* history: files whose removal failed in the last runEOD

storeVars == <<today, job_groups, jobs, daily_summary, documents, nextGroup, nextJob>>
customerVars == <<customerPage, currentJobGroupId, uploadedFiles, configuringFileId,
                  resetPending, errors>>
dashVars == <<variant, jobGroups, requests, toast, dailySummaries, dateFilter>>
history == <<counted, usersCounted, eodRemoveErrors>>
vars == <<storeVars, customerVars, dashVars, history>>

\* ------------------------------------------------------------- helpers
RECURSIVE Sum(_)
\* Array.prototype.reduce((sum, x) => sum + x, 0)
Sum(s) == IF s = <<>> THEN 0 ELSE Head(s) + Sum(Tail(s))

\* lexicographic order on created_at = <<date, tick>>
Before(a, b) == a[1] < b[1] \/ (a[1] = b[1] /\ a[2] < b[2])

RECURSIVE OrderAscending(_)
\* .order("created_at", { ascending: true })
OrderAscending(S) ==
  IF S = {} THEN <<>>
  ELSE LET m == CHOOSE x \in S :
                  \A y \in S \ {x} : Before(x.created_at, y.created_at)
       IN <<m>> \o OrderAscending(S \ {m})

\* created_at.startsWith(today): the date part of the timestamp
DateOf(created_at) == created_at[1]

\* ------------------------------------------------------------- strings
\* A string of the page range input is the sequence of its characters.
Chars == {"1", "3", "-", ",", " "}

\* the strings of a given length, and of every length up to MaxExprLen
StringsOfLen(n) == [1..n -> Chars]
Strings == UNION { StringsOfLen(n) : n \in 0..MaxExprLen }
RangeStrings == UNION { StringsOfLen(n) : n \in 0..MaxRangeLen }

\* the two values of the "Pages to Print" radio group
All == <<"a", "l", "l">>
Custom == <<"c", "u", "s", "t", "o", "m">>

IsDigit(c) == c \in {"0", "1", "2", "3", "4", "5", "6", "7", "8", "9"}

DigitValue(c) ==
  CASE c = "0" -> 0 [] c = "1" -> 1 [] c = "2" -> 2 [] c = "3" -> 3
    [] c = "4" -> 4 [] c = "5" -> 5 [] c = "6" -> 6 [] c = "7" -> 7
    [] c = "8" -> 8 [] c = "9" -> 9

RECURSIVE trimStart(_)
trimStart(s) ==
  IF s # <<>> /\ Head(s) = " " THEN trimStart(Tail(s)) ELSE s

RECURSIVE trimEnd(_)
trimEnd(s) ==
  IF s # <<>> /\ s[Len(s)] = " " THEN trimEnd(SubSeq(s, 1, Len(s) - 1)) ELSE s

\* String.prototype.trim
trim(s) == trimEnd(trimStart(s))

\* String.prototype.includes for a one character needle
includes(s, c) == \E i \in 1..Len(s) : s[i] = c

RECURSIVE split(_, _)
\* String.prototype.split for a one character separator
split(s, sep) ==
  IF ~ includes(s, sep) THEN <<s>>
  ELSE LET i == CHOOSE k \in 1..Len(s) :
                  s[k] = sep /\ \A m \in 1..(k - 1) : s[m] # sep
       IN <<SubSeq(s, 1, i - 1)>> \o split(SubSeq(s, i + 1, Len(s)), sep)

\* the value JavaScript calls NaN.  It is kept apart from every number the
\* bounds of the model can produce; JSON.stringify turns it into null, which
\* is what the record store then holds in an INT column.
NaN == -1000000000

RECURSIVE DecimalValue(_)
DecimalValue(s) ==
  IF s = <<>> THEN 0
  ELSE 10 * DecimalValue(SubSeq(s, 1, Len(s) - 1)) + DigitValue(s[Len(s)])

AllDigits(s) == \A i \in 1..Len(s) : IsDigit(s[i])

\* Number(string): white space around the numeral is ignored, the empty
\* string is 0, a numeral may carry a sign, anything else is NaN
Number(s) ==
  LET t == trim(s) IN
  IF t = <<>> THEN 0
  ELSE IF AllDigits(t) THEN DecimalValue(t)
  ELSE IF Head(t) = "-" /\ Len(t) > 1 /\ AllDigits(Tail(t))
       THEN 0 - DecimalValue(Tail(t))
  ELSE NaN

\* a > b and a < b of JavaScript: false as soon as one side is NaN
Greater(a, b) == a # NaN /\ b # NaN /\ a > b
Less(a, b) == a # NaN /\ b # NaN /\ a < b

\* one repetition of the group of pagePattern: \d+(-\d+)?,?\s*
IsPatternGroup(g) ==
  LET noSpace == trimEnd(g)
      noComma == IF noSpace # <<>> /\ noSpace[Len(noSpace)] = ","
                 THEN SubSeq(noSpace, 1, Len(noSpace) - 1) ELSE noSpace
      parts == split(noComma, "-")
  IN /\ Len(parts) \in {1, 2}
     /\ \A i \in 1..Len(parts) : parts[i] # <<>> /\ AllDigits(parts[i])

RECURSIVE pagePattern(_)
\* /^(\d+(-\d+)?,?\s*)+$/.test(s)
pagePattern(s) ==
  \E k \in 1..Len(s) :
    /\ IsPatternGroup(SubSeq(s, 1, k))
    /\ (k = Len(s) \/ pagePattern(SubSeq(s, k + 1, Len(s))))

\* ------------------------------------------------------------- pricing
\* Math.round(n / 2) for an integer n (halves round towards +infinity)
RoundHalf(n) == (n + 1) \div 2

\* customPages.split(",").map(p => p.trim())
PageTokens(pages) ==
  LET pieces == split(pages, ",") IN [i \in 1..Len(pieces) |-> trim(pieces[i])]

\* a count of the pages of a range that leaves its last page out
TokenPagesExclusive(page) ==
  IF includes(page, "-")
  THEN LET numbers == split(page, "-")
           start == Number(numbers[1])
           end == Number(numbers[2])
       IN IF start = NaN \/ end = NaN THEN NaN ELSE end - start
  ELSE 1

\* the contribution of one token to pageCount: end - start + 1 for a token
\* with a dash, 1 for any other token
TokenPages(page) ==
  IF includes(page, "-")
  THEN LET numbers == split(page, "-")
           start == Number(numbers[1])
           end == Number(numbers[2])
       IN IF start = NaN \/ end = NaN THEN NaN ELSE end - start + 1
  ELSE 1

RECURSIVE CountTokens(_)
\* the loop of calculatePrice over the tokens of a custom page expression
CountTokens(tokens) ==
  IF tokens = <<>> THEN 0
  ELSE LET first == TokenPages(Head(tokens))
           rest == CountTokens(Tail(tokens))
       IN IF first = NaN \/ rest = NaN THEN NaN ELSE first + rest

calculatePrice(recipe, totalPages) ==
  LET basePricePerPage == IF recipe.colorMode = "color" THEN 1000 ELSE 150
      platformFee == 100
      pageCount == IF recipe.pages = All THEN totalPages
                   ELSE CountTokens(PageTokens(recipe.pages))
      \* sidesMultiplier is 1.5 for double and 1 for single
      printingCost ==
        IF recipe.sides = "double"
        THEN RoundHalf(3 * basePricePerPage * pageCount * recipe.copies)
        ELSE basePricePerPage * pageCount * recipe.copies
  IN IF pageCount = NaN THEN NaN ELSE printingCost + platformFee

\* Math.round(n / 10) for an integer n
RoundTenth(n) == (n + 5) \div 10

\* calculatePrice of the customer page in Index.tsx
calculatePriceOfIndex(recipe, totalPages) ==
  LET basePricePerPage == 10
      colorMultiplier == IF recipe.colorMode = "color" THEN 2 ELSE 1
      pageCount == IF recipe.pages = All THEN totalPages
                   ELSE CountTokens(PageTokens(recipe.pages))
      product == basePricePerPage * pageCount * recipe.copies * colorMultiplier
  IN IF pageCount = NaN THEN NaN
     \* sidesMultiplier is 0.9 for double and 1 for single
     ELSE IF recipe.sides = "double" THEN RoundTenth(9 * product)
     ELSE product

\* const priceCents = calculatePrice(recipe, file.totalPages), in the page
\* that is mounted
PriceOn(page, recipe, totalPages) ==
  IF page = Index THEN calculatePriceOfIndex(recipe, totalPages)
  ELSE calculatePrice(recipe, totalPages)

\* the range check validateAndSubmit makes on one token
TokenOutOfRange(page, totalPages) ==
  IF includes(page, "-")
  THEN LET numbers == split(page, "-")
           start == Number(numbers[1])
           end == Number(numbers[2])
       IN \/ Greater(start, totalPages) \/ Greater(end, totalPages)
          \/ Less(start, 1) \/ Less(end, 1)
  ELSE LET pageNum == Number(page)
       IN Greater(pageNum, totalPages) \/ Less(pageNum, 1)

\* the messages validateAndSubmit collects for the form's recipe (whose
\* pages is All or Custom) and the text of the page range input
FormErrors(recipe, customPages, totalPages) ==
  (IF recipe.pages # Custom THEN {}
   ELSE IF trim(customPages) = <<>> THEN {"Please specify page range"}
   ELSE IF ~ pagePattern(trim(customPages)) THEN {"Invalid page format"}
   ELSE IF \E i \in 1..Len(PageTokens(customPages)) :
             TokenOutOfRange(PageTokens(customPages)[i], totalPages)
        THEN {"Page numbers must be between 1 and totalPages"}
   ELSE {})
  \cup
  (IF recipe.copies < 1 \/ recipe.copies > 100
   THEN {"Copies must be between 1 and 100"} ELSE {})

\* the recipe validateAndSubmit hands to onSubmit
finalRecipe(recipe, customPages) ==
  [recipe EXCEPT !.pages = IF recipe.pages = Custom THEN trim(customPages)
                           ELSE recipe.pages]

\* the recipe PrintRecipeForm starts with, submitted as it is, and the page
\* count getPageCount reports for an image
Recipes ==
  { [pages |-> All, colorMode |-> "bw", sides |-> "single", copies |-> 1] }
PageCounts == {1}

\* what the controls of PrintRecipeForm can hold: two radio groups of two
\* values each, the radio group of the pages, and the copies input, whose
\* onChange keeps parseInt(value) || 1
CopiesInputs == {-1, 1, 2, 101}
FormRecipes ==
  [pages : {All, Custom}, colorMode : {"bw", "color"},
   sides : {"single", "double"}, copies : CopiesInputs]

\* the form with nothing touched but the radio group of the pages
PageRecipes ==
  [pages : {All, Custom}, colorMode : {"bw"}, sides : {"single"}, copies : {1}]

\* ---------------------------------------------------------------- Init
\* nothing stored, nothing uploaded, one of the given customer pages and one
\* of the given dashboards mounted
Mounted(pagesMounted, dashboardsMounted) ==
  /\ today = 0
  /\ job_groups = {}
  /\ jobs = {}
  /\ daily_summary = <<>>
  /\ documents = {}
  /\ nextGroup = 1
  /\ nextJob = 1
  /\ customerPage \in pagesMounted
  /\ currentJobGroupId = NULL
  /\ uploadedFiles = {}
  /\ configuringFileId = NULL
  /\ resetPending = FALSE
  /\ errors = {}
  /\ variant \in dashboardsMounted
  /\ jobGroups = <<>>
  /\ requests = EmptyBag
  /\ toast = ""
  /\ dailySummaries = <<>>
  /\ dateFilter = 0
  /\ counted = [j \in JobIds |-> 0]
  /\ usersCounted = [g \in GroupIds |-> 0]
  /\ eodRemoveErrors = {}

\* the application as it is routed: src/pages/CustomerApp.tsx serves the
\* customer
Init == Mounted({CustomerApp}, Variants)

\* either customer page; the dashboard plays no part
InitPages == Mounted(CustomerPages, {SD})

\* the calendar date changes
NextDay ==
  /\ today < MaxDay
  /\ today' = today + 1
  /\ UNCHANGED <<job_groups, jobs, daily_summary, documents, nextGroup, nextJob,
                 customerVars, dashVars, history>>

\* ------------------------------------------------------------ customer
\* an iteration whose catch block leaves the file in uploadedFiles
UploadOneFileKeeping(st, closureGroupId, totalPages, outcome) ==
  LET fileId == st.nextJob
      createsGroup == closureGroupId = NULL
      groupRow == [id |-> st.nextGroup, total_price_cents |-> 0,
                   payment_status |-> "unpaid",
                   created_at |-> <<today, st.nextGroup>>]
      afterGroup ==
        IF createsGroup
        THEN [st EXCEPT !.job_groups = @ \cup {groupRow},
                        !.currentJobGroupId = st.nextGroup,
                        !.nextGroup = @ + 1]
        ELSE st
      \* jobs.job_group_id REFERENCES job_groups(id): NULL is accepted,
      \* the id of a row that is gone is rejected
      foreignKeyOk ==
        closureGroupId = NULL
          \/ \E g \in afterGroup.job_groups : g.id = closureGroupId
      \* the columns the insert does not name take their defaults
      jobRow == [id |-> fileId, job_group_id |-> closureGroupId,
                 pages |-> All, color_mode |-> "bw", sides |-> "single",
                 copies |-> 1,
                 price_cents |-> 0, payment_status |-> "unpaid",
                 status |-> "queued"]
      newFile == [id |-> fileId, priceCents |-> 0, status |-> "configuring",
                  totalPages |-> totalPages]
      uploading == [newFile EXCEPT !.status = "uploading"]
  IN
     IF createsGroup /\ outcome = "jobGroupError"
     THEN [st EXCEPT !.uploadedFiles = @ \cup {uploading}, !.nextJob = @ + 1]
     ELSE IF outcome = "uploadError"
     THEN [afterGroup EXCEPT !.uploadedFiles = @ \cup {uploading},
                             !.nextJob = @ + 1]
     ELSE IF outcome = "jobError" \/ ~ foreignKeyOk
     THEN [afterGroup EXCEPT !.documents = @ \cup {fileId},
                             !.uploadedFiles = @ \cup {uploading},
                             !.nextJob = @ + 1]
     ELSE [afterGroup EXCEPT !.documents = @ \cup {fileId},
                             !.jobs = @ \cup {jobRow},
                             !.uploadedFiles = @ \cup {newFile},
                             !.configuringFileId = fileId,
                             !.nextJob = @ + 1]

\* One iteration of the loop of handleFileUpload for the file with id
\* st.nextJob.  closureGroupId is the value of currentJobGroupId captured
\* by the callback when it was created: setCurrentJobGroupId does not
\* change it while the callback runs.
UploadOneFile(st, closureGroupId, totalPages, outcome) ==
  LET fileId == st.nextJob
      createsGroup == closureGroupId = NULL
      groupRow == [id |-> st.nextGroup, total_price_cents |-> 0,
                   payment_status |-> "unpaid",
                   created_at |-> <<today, st.nextGroup>>]
      afterGroup ==
        IF createsGroup
        THEN [st EXCEPT !.job_groups = @ \cup {groupRow},
                        !.currentJobGroupId = st.nextGroup,
                        !.nextGroup = @ + 1]
        ELSE st
      \* jobs.job_group_id REFERENCES job_groups(id): NULL is accepted,
      \* the id of a row that is gone is rejected
      foreignKeyOk ==
        closureGroupId = NULL
          \/ \E g \in afterGroup.job_groups : g.id = closureGroupId
      \* the columns the insert does not name take their defaults
      jobRow == [id |-> fileId, job_group_id |-> closureGroupId,
                 pages |-> All, color_mode |-> "bw", sides |-> "single",
                 copies |-> 1,
                 price_cents |-> 0, payment_status |-> "unpaid",
                 status |-> "queued"]
      newFile == [id |-> fileId, priceCents |-> 0, status |-> "configuring",
                  totalPages |-> totalPages]
  IN \* every failure ends in the catch block, which filters the file out
     \* of uploadedFiles again
     IF createsGroup /\ outcome = "jobGroupError"
     THEN [st EXCEPT !.nextJob = @ + 1]
     ELSE IF outcome = "uploadError"
     THEN [afterGroup EXCEPT !.nextJob = @ + 1]
     ELSE IF outcome = "jobError" \/ ~ foreignKeyOk
     THEN [afterGroup EXCEPT !.documents = @ \cup {fileId},
                             !.nextJob = @ + 1]
     ELSE [afterGroup EXCEPT !.documents = @ \cup {fileId},
                             !.jobs = @ \cup {jobRow},
                             !.uploadedFiles = @ \cup {newFile},
                             !.configuringFileId = fileId,
                             !.nextJob = @ + 1]

RECURSIVE UploadLoop(_, _, _, _)
UploadLoop(st, closureGroupId, pages, outcomes) ==
  IF outcomes = <<>> THEN st
  ELSE UploadLoop(UploadOneFile(st, closureGroupId, Head(pages), Head(outcomes)),
                  closureGroupId, Tail(pages), Tail(outcomes))

handleFileUpload(pages, outcomes) ==
  LET n == Len(outcomes)
      st0 == [job_groups |-> job_groups, jobs |-> jobs, documents |-> documents,
              uploadedFiles |-> uploadedFiles,
              currentJobGroupId |-> currentJobGroupId,
              configuringFileId |-> configuringFileId,
              nextGroup |-> nextGroup, nextJob |-> nextJob]
      st1 == UploadLoop(st0, currentJobGroupId, pages, outcomes)
  IN \* the dropzone is rendered when no file is being configured
     /\ configuringFileId = NULL
     /\ nextJob + n - 1 <= MaxJobs
     /\ currentJobGroupId = NULL => nextGroup + n - 1 <= MaxGroups
     /\ job_groups' = st1.job_groups
     /\ jobs' = st1.jobs
     /\ documents' = st1.documents
     /\ uploadedFiles' = st1.uploadedFiles
     /\ currentJobGroupId' = st1.currentJobGroupId
     /\ configuringFileId' = st1.configuringFileId
     /\ nextGroup' = st1.nextGroup
     /\ nextJob' = st1.nextJob
     \* a form that is mounted for the new file starts without messages
     /\ errors' = {}
     /\ UNCHANGED <<today, daily_summary, resetPending, customerPage, dashVars, history>>

handleRecipeSubmit(recipe) ==
  /\ configuringFileId # NULL
  /\ \E file \in uploadedFiles :
       /\ file.id = configuringFileId
       /\ LET priceCents == PriceOn(customerPage, recipe, file.totalPages) IN
          /\ jobs' = { IF j.id = configuringFileId
                       THEN [j EXCEPT !.pages = recipe.pages,
                                      !.color_mode = recipe.colorMode,
                                      !.sides = recipe.sides,
                                      !.copies = recipe.copies,
                                      !.price_cents = priceCents]
                       ELSE j : j \in jobs }
          /\ uploadedFiles' =
               (uploadedFiles \ {file})
                 \cup {[file EXCEPT !.priceCents = priceCents, !.status = "ready"]}
  /\ configuringFileId' = NULL
  \* the form is unmounted
  /\ errors' = {}
  /\ UNCHANGED <<today, job_groups, daily_summary, documents, nextGroup, nextJob,
                 currentJobGroupId, resetPending, customerPage, dashVars, history>>

\* "Save Settings" of PrintRecipeForm, the form holding recipe and, in its
\* page range input, customPages
validateAndSubmit(recipe, customPages) ==
  /\ configuringFileId # NULL
  /\ \E file \in uploadedFiles :
       /\ file.id = configuringFileId
       /\ LET newErrors == FormErrors(recipe, customPages, file.totalPages) IN
          IF newErrors # {}
          THEN /\ errors' = newErrors
               /\ UNCHANGED <<storeVars, currentJobGroupId, uploadedFiles,
                              configuringFileId, resetPending, customerPage, dashVars, history>>
          ELSE handleRecipeSubmit(finalRecipe(recipe, customPages))

handleRecipeCancel ==
  /\ configuringFileId # NULL
  /\ configuringFileId' = NULL
  /\ errors' = {}
  /\ UNCHANGED <<storeVars, currentJobGroupId, uploadedFiles, resetPending,
                 customerPage, dashVars, history>>

readyFiles == { f \in uploadedFiles : f.status = "ready" }

RECURSIVE totalCentsOf(_)
totalCentsOf(files) ==
  IF files = {} THEN 0
  ELSE LET f == CHOOSE x \in files : TRUE
           rest == totalCentsOf(files \ {f})
       IN IF f.priceCents = NaN \/ rest = NaN THEN NaN ELSE f.priceCents + rest

canProceedToPayment == readyFiles # {} /\ configuringFileId = NULL

\* the three amounts under the items of OrderSummary, in paise: the
\* component subtracts 100 from totalCents and prints "1.00" as the fee
OrderSummary(totalCents) ==
  [printingCost |-> IF totalCents = NaN THEN NaN ELSE totalCents - 100,
   platformFee |-> 100,
   totalCost |-> totalCents]

handleConfirmPayment ==
  /\ canProceedToPayment
  /\ currentJobGroupId # NULL
  /\ LET totalPrice == totalCentsOf(readyFiles) IN
       job_groups' = { IF g.id = currentJobGroupId
                       THEN [g EXCEPT !.payment_status = "paid",
                                      !.total_price_cents = totalPrice]
                       ELSE g : g \in job_groups }
  /\ jobs' = { IF j.job_group_id = currentJobGroupId
               THEN [j EXCEPT !.payment_status = "paid"] ELSE j : j \in jobs }
  /\ resetPending' = TRUE
  /\ UNCHANGED <<today, daily_summary, documents, nextGroup, nextJob,
                 currentJobGroupId, uploadedFiles, configuringFileId, errors,
                 customerPage, dashVars, history>>

\* the setTimeout(..., 3000) callback of handleConfirmPayment
PaymentResetTimer ==
  /\ resetPending
  /\ uploadedFiles' = {}
  /\ currentJobGroupId' = NULL
  /\ resetPending' = FALSE
  /\ UNCHANGED <<storeVars, configuringFileId, errors, customerPage, dashVars, history>>

\* ----------------------------------------------------------- dashboard
RECURSIVE OrderJobs(_)
\* jobs .order("created_at", { ascending: true }); file ids are allotted in
\* creation order
OrderJobs(S) ==
  IF S = {} THEN <<>>
  ELSE LET m == CHOOSE x \in S : \A y \in S : x.id <= y.id
       IN <<m>> \o OrderJobs(S \ {m})

\* the rows of a query in the opposite order
Reverse(rows) == [i \in 1..Len(rows) |-> rows[Len(rows) + 1 - i]]

\* groups.map(group => ({...group, jobs: jobs.filter(...)}))
WithJobs(group, jobRows) ==
  [id |-> group.id, total_price_cents |-> group.total_price_cents,
   payment_status |-> group.payment_status, created_at |-> group.created_at,
   jobs |-> IF variant = PPP560
            THEN Reverse(OrderJobs({ j \in jobRows : j.job_group_id = group.id }))
            ELSE OrderJobs({ j \in jobRows : j.job_group_id = group.id })]

\* the value loadJobGroups passes to setJobGroups
LoadedJobGroups(groupRows, jobRows) ==
  IF variant = SD
  THEN LET groups == OrderAscending({ g \in groupRows : g.payment_status = "paid" })
           paidJobs == { j \in jobRows : j.payment_status = "paid" }
       IN [i \in 1..Len(groups) |-> WithJobs(groups[i], paidJobs)]
  ELSE IF variant = PPP560
  THEN \* .order("created_at", { ascending: false })
       LET groups == Reverse(OrderAscending(
                       { g \in groupRows : g.payment_status = "paid" }))
           paidJobs == { j \in jobRows : j.payment_status = "paid" }
       IN [i \in 1..Len(groups) |-> WithJobs(groups[i], paidJobs)]
  ELSE LET groups == OrderAscending(groupRows)
           nested == [i \in 1..Len(groups) |-> WithJobs(groups[i], jobRows)]
       IN SelectSeq(nested, LAMBDA g : Len(g.jobs) > 0)

\* loadDailySummaries: .gte("date", dateFilter.start).lte("date",
\* dateFilter.end), both ends being the date the component was mounted on
LoadedSummaries(table, date) == SelectSeq(table, LAMBDA r : r.date = date)

\* the component mounts (page load) and its useEffect calls loadJobGroups;
\* the operator does not leave a page that still has updates under way.
\* The component at line 1006 of PrintPreviewPage.tsx loads the daily
\* summaries as well; the other two do not, and what they would load on
\* their sales tab is not followed.
loadJobGroups ==
  /\ requests = EmptyBag
  /\ jobGroups' = LoadedJobGroups(job_groups, jobs)
  /\ IF variant = PPP
     THEN /\ dateFilter' = today
          /\ dailySummaries' = LoadedSummaries(daily_summary, today)
     ELSE UNCHANGED <<dailySummaries, dateFilter>>
  /\ UNCHANGED <<storeVars, customerVars, variant, requests, toast, history>>

\* the jobs the dashboard shows, with the status it shows for each
CachedJobs ==
  UNION { { jobGroups[i].jobs[k] : k \in 1..Len(jobGroups[i].jobs) } :
            i \in 1..Len(jobGroups) }

\* "Start Processing" is rendered for job.status === "queued" and
\* "Mark Printed" for job.status === "processing"; a click calls
\* updateJobStatus, which runs up to its first await
ClickStatusButton(jobId, newStatus) ==
  /\ \E job \in CachedJobs :
       /\ job.id = jobId
       /\ \/ job.status = "queued" /\ newStatus = "processing"
          \/ job.status = "processing" /\ newStatus = "printed"
  /\ BagCardinality(requests) < MaxRequests
  /\ requests' = requests (+) SetToBag({[jobId |-> jobId, newStatus |-> newStatus]})
  /\ UNCHANGED <<storeVars, customerVars, variant, jobGroups, toast,
                 dailySummaries, dateFilter, history>>

\* setJobGroups(prev => prev.map(... job.id === jobId ? {...job, status} : job))
WithStatus(groups, jobId, newStatus) ==
  [i \in 1..Len(groups) |->
     [groups[i] EXCEPT !.jobs =
        [k \in 1..Len(groups[i].jobs) |->
           IF groups[i].jobs[k].id = jobId
           THEN [groups[i].jobs[k] EXCEPT !.status = newStatus]
           ELSE groups[i].jobs[k]]]]

\* .from("daily_summary").select("*").eq("date", date).single(): the rows
\* found; single() yields a row when there is exactly one
SummaryRows(table, date) == SelectSeq(table, LAMBDA r : r.date = date)

HasSingle(table, date) == Len(SummaryRows(table, date)) = 1

\* an insert into a daily_summary whose date column is not UNIQUE
InsertSummaryNoUnique(table, row) == Append(table, row)

\* .from("daily_summary").insert(row): date is declared UNIQUE, so a second
\* row for a date is rejected (the callers do not look at the error)
InsertSummary(table, row) ==
  IF \E i \in 1..Len(table) : table[i].date = row.date
  THEN table
  ELSE Append(table, row)

\* .from("daily_summary").update({...}).eq("date", date), the new values
\* being the ones read before plus the given amounts
AddToSummary(table, date, users, docs, income) ==
  LET existingSummary == SummaryRows(table, date)[1] IN
  [i \in 1..Len(table) |->
     IF table[i].date = date
     THEN [date |-> date,
           total_users |-> existingSummary.total_users + users,
           total_docs |-> existingSummary.total_docs + docs,
           total_income_cents |-> existingSummary.total_income_cents + income]
     ELSE table[i]]

\* select-then-update-or-insert, as written in updateJobStatus and runEOD
UpsertSummary(table, date, users, docs, income) ==
  IF HasSingle(table, date)
  THEN AddToSummary(table, date, users, docs, income)
  ELSE InsertSummary(table, [date |-> date, total_users |-> users,
                             total_docs |-> docs, total_income_cents |-> income])

\* a price read from the record store as an operand of +: null counts as 0
Cents(value) == IF value = NaN THEN 0 ELSE value

\* what updateJobStatus does once the record store has accepted the update
StatusUpdated(jobId, newStatus) ==
  LET updatedJobs == { [j EXCEPT !.status = newStatus] : j \in { x \in jobs : x.id = jobId } }
      accumulates == variant = PPP /\ newStatus = "printed" /\ updatedJobs # {}
  IN
  /\ jobs' = { j \in jobs : j.id # jobId } \cup updatedJobs
  /\ jobGroups' = WithStatus(jobGroups, jobId, newStatus)
  /\ IF accumulates
     THEN LET job == CHOOSE j \in updatedJobs : TRUE IN
          /\ daily_summary' = UpsertSummary(daily_summary, today, 1, 1, Cents(job.price_cents))
          /\ counted' = [counted EXCEPT ![jobId] = @ + 1]
          /\ usersCounted' = [g \in GroupIds |->
                                IF g = job.job_group_id THEN usersCounted[g] + 1
                                ELSE usersCounted[g]]
     ELSE UNCHANGED <<daily_summary, counted, usersCounted>>
  /\ toast' = "Status updated"
  /\ UNCHANGED <<today, job_groups, documents, nextGroup, nextJob, customerVars,
                 variant, dailySummaries, dateFilter, eodRemoveErrors>>

\* the body of updateJobStatus for a click made earlier
updateJobStatus(jobId, newStatus) ==
  /\ [jobId |-> jobId, newStatus |-> newStatus] \in BagToSet(requests)
  /\ requests' = requests (-) SetToBag({[jobId |-> jobId, newStatus |-> newStatus]})
  /\ StatusUpdated(jobId, newStatus)

\* a click on a status button whose handler runs to its end before the
\* operator does anything else
StatusButton(jobId, newStatus) ==
  /\ \E job \in CachedJobs :
       /\ job.id = jobId
       /\ \/ job.status = "queued" /\ newStatus = "processing"
          \/ job.status = "processing" /\ newStatus = "printed"
  /\ StatusUpdated(jobId, newStatus)
  /\ UNCHANGED requests

\* an updateJobStatus that changes the status it shows before it looks at
\* the answer of the record store
updateJobStatusErrorOptimistic(jobId, newStatus) ==
  /\ [jobId |-> jobId, newStatus |-> newStatus] \in BagToSet(requests)
  /\ requests' = requests (-) SetToBag({[jobId |-> jobId, newStatus |-> newStatus]})
  /\ jobGroups' = WithStatus(jobGroups, jobId, newStatus)
  /\ toast' = "Error"
  /\ UNCHANGED <<storeVars, customerVars, variant, dailySummaries, dateFilter,
                 history>>

\* updateJobStatus when the record store answers with an error
updateJobStatusError(jobId, newStatus) ==
  /\ [jobId |-> jobId, newStatus |-> newStatus] \in BagToSet(requests)
  /\ requests' = requests (-) SetToBag({[jobId |-> jobId, newStatus |-> newStatus]})
  /\ toast' = "Error"
  /\ UNCHANGED <<storeVars, customerVars, variant, jobGroups, dailySummaries,
                 dateFilter, history>>

\* group.jobs.length and group.total_price_cents over the selected groups
DocsOf(groups) == Sum([i \in 1..Len(groups) |-> Len(groups[i].jobs)])

IncomeOf(groups) ==
  Sum([i \in 1..Len(groups) |-> Cents(groups[i].total_price_cents)])

IdsOf(groups) == { groups[i].id : i \in 1..Len(groups) }

JobIdsOf(groups) ==
  UNION { { groups[i].jobs[k].id : k \in 1..Len(groups[i].jobs) } :
            i \in 1..Len(groups) }

\* .from("job_groups").delete().in("id", ids); jobs go by ON DELETE CASCADE
DeleteGroups(ids) ==
  /\ job_groups' = { g \in job_groups : g.id \notin ids }
  /\ jobs' = { j \in jobs : j.job_group_id \notin ids }

\* what deleteJob of PrintPreviewPage.tsx writes to daily_summary
DeleteAdjustment(table, date, group) ==
  IF HasSingle(table, date)
  THEN AddToSummary(table, date, 1, Len(group.jobs), Cents(group.total_price_cents))
  ELSE InsertSummary(table, [date |-> date, total_users |-> 0,
                             total_docs |-> 0, total_income_cents |-> 0])

\* supabase.storage.from("documents").remove([path]) for each of the files
\* ids; the removal of those in failed returns an error, which no caller
\* looks at
RemoveFiles(objects, ids, failed) == objects \ (ids \ failed)

\* the trash button of an order card, confirmed; the component at line 560
\* of PrintPreviewPage.tsx has no such button
deleteJob(jobGroupId) ==
  /\ variant # PPP560
  /\ \E i \in 1..Len(jobGroups) :
       /\ jobGroups[i].id = jobGroupId
       /\ IF variant = PPP
          THEN /\ daily_summary' = DeleteAdjustment(daily_summary, today, jobGroups[i])
               /\ counted' =
                    [j \in JobIds |->
                       IF HasSingle(daily_summary, today) /\ j \in JobIdsOf(<<jobGroups[i]>>)
                       THEN counted[j] + 1 ELSE counted[j]]
               /\ usersCounted' =
                    [g \in GroupIds |->
                       IF HasSingle(daily_summary, today) /\ g = jobGroupId
                       THEN usersCounted[g] + 1 ELSE usersCounted[g]]
          ELSE UNCHANGED <<daily_summary, counted, usersCounted>>
       /\ documents' = RemoveFiles(documents, JobIdsOf(<<jobGroups[i]>>), {})
  /\ DeleteGroups({jobGroupId})
  /\ jobGroups' = SelectSeq(jobGroups, LAMBDA g : g.id # jobGroupId)
  /\ dailySummaries' = IF variant = PPP
                       THEN LoadedSummaries(daily_summary', dateFilter)
                       ELSE dailySummaries
  /\ toast' = "Job deleted"
  /\ UNCHANGED <<today, nextGroup, nextJob, customerVars, variant, requests,
                 dateFilter, eodRemoveErrors>>

\* the groups runEOD archives: jobGroups.filter(created_at.startsWith(today))
todayJobs == SelectSeq(jobGroups, LAMBDA g : DateOf(g.created_at) = today)

\* what runEOD writes to daily_summary: a plain insert in
\* ShopkeeperDashboard.tsx and at line 662 of PrintPreviewPage.tsx,
\* select-then-update-or-insert at line 1323 of PrintPreviewPage.tsx
EODSummary(table, date, groups) ==
  IF variant # PPP
  THEN InsertSummary(table, [date |-> date, total_users |-> Len(groups),
                             total_docs |-> DocsOf(groups),
                             total_income_cents |-> IncomeOf(groups)])
  ELSE UpsertSummary(table, date, Len(groups), DocsOf(groups), IncomeOf(groups))

\* whether the summary write of runEOD takes effect
EODWrites(table, date) ==
  variant = PPP \/ ~ \E i \in 1..Len(table) : table[i].date = date

\* a runEOD whose first failing file removal throws: the files visited
\* before it are removed, and the catch block reports the error
EODCleanupAborting(failed) ==
  LET before(i, k, m, n) == i < m \/ (i = m /\ k < n)
      visited ==
        { todayJobs[i].jobs[k].id :
            <<i, k>> \in { <<a, b>> \in (1..Len(todayJobs)) \X JobIds :
                             /\ b <= Len(todayJobs[a].jobs)
                             /\ \A m \in 1..Len(todayJobs) :
                                  \A n \in 1..Len(todayJobs[m].jobs) :
                                    todayJobs[m].jobs[n].id \in failed
                                      => before(a, b, m, n) } }
  IN IF failed = {}
     THEN /\ documents' = documents \ JobIdsOf(todayJobs)
          /\ DeleteGroups(IdsOf(todayJobs))
          /\ toast' = "EOD Complete"
          /\ jobGroups' = LoadedJobGroups(job_groups', jobs')
          /\ dailySummaries' = IF variant = PPP
                               THEN LoadedSummaries(daily_summary', dateFilter)
                               ELSE dailySummaries
     ELSE /\ documents' = documents \ visited
          /\ toast' = "Error"
          /\ UNCHANGED <<job_groups, jobs, jobGroups, dailySummaries>>

\* the second half of runEOD: the files of the selected jobs are removed one
\* by one (the removal of those in failed returns an error), then the
\* selected groups are deleted, and the dashboard reloads
EODCleanup(failed) ==
  /\ documents' = RemoveFiles(documents, JobIdsOf(todayJobs), failed)
  /\ DeleteGroups(IdsOf(todayJobs))
  /\ toast' = "EOD Complete"
  /\ jobGroups' = LoadedJobGroups(job_groups', jobs')
  /\ dailySummaries' = IF variant = PPP
                       THEN LoadedSummaries(daily_summary', dateFilter)
                       ELSE dailySummaries

\* the "End of Day" button, confirmed, when the removal of the files in
\* failed returns an error
runEODRemoving(failed) ==
  /\ failed \subseteq JobIdsOf(todayJobs)
  /\ daily_summary' = EODSummary(daily_summary, today, todayJobs)
  /\ counted' = [j \in JobIds |->
                   IF EODWrites(daily_summary, today) /\ j \in JobIdsOf(todayJobs)
                   THEN counted[j] + 1 ELSE counted[j]]
  /\ usersCounted' = [g \in GroupIds |->
                        IF EODWrites(daily_summary, today) /\ g \in IdsOf(todayJobs)
                        THEN usersCounted[g] + 1 ELSE usersCounted[g]]
  /\ eodRemoveErrors' = failed
  /\ EODCleanup(failed)
  /\ UNCHANGED <<today, nextGroup, nextJob, customerVars, variant, requests,
                 dateFilter>>

\* the "End of Day" button, confirmed, every file removal succeeding
runEOD == runEODRemoving({})

Statuses == {"queued", "processing", "printed", "ready"}

\* the figures of the cards at the top of the dashboard: totalRevenue is
\* the income of today's loaded summary at line 1424 of PrintPreviewPage.tsx
\* and the sum of the group totals in the other two components
stats ==
  [totalJobs |-> Sum([i \in 1..Len(jobGroups) |-> Len(jobGroups[i].jobs)]),
   totalRevenue |->
     IF variant = PPP
     THEN LET todaySummary == SelectSeq(dailySummaries, LAMBDA r : r.date = today)
          IN IF todaySummary # <<>> THEN todaySummary[1].total_income_cents ELSE 0
     ELSE Sum([i \in 1..Len(jobGroups) |-> Cents(jobGroups[i].total_price_cents)]),
   pendingJobs |->
     Sum([i \in 1..Len(jobGroups) |->
            Len(SelectSeq(jobGroups[i].jobs, LAMBDA job : job.status = "queued"))])]

\* ---------------------------------------------------- specifications
CustomerOrders ==
  \/ \E n \in 1..MaxBatch :
       \E pages \in [1..n -> PageCounts] :
         handleFileUpload(pages, [i \in 1..n |-> "ok"])
  \/ \E recipe \in Recipes : validateAndSubmit(recipe, <<>>)
  \/ handleRecipeCancel
  \/ handleConfirmPayment
  \/ PaymentResetTimer

\* orders, the queue and the accounts: every status click is served before
\* the next event
Next ==
  \/ NextDay
  \/ CustomerOrders
  \/ loadJobGroups
  \/ \E jobId \in JobIds, newStatus \in Statuses : StatusButton(jobId, newStatus)
  \/ \E jobGroupId \in GroupIds : deleteJob(jobGroupId)
  \/ runEOD

Spec == Init /\ [][Next]_vars

\* the status protocol: clicks and the handlers that serve them interleave
NextStatus ==
  \/ CustomerOrders
  \/ loadJobGroups
  \/ \E jobId \in JobIds, newStatus \in Statuses :
       \/ ClickStatusButton(jobId, newStatus)
       \/ updateJobStatus(jobId, newStatus)
       \/ updateJobStatusError(jobId, newStatus)

SpecStatus == Init /\ [][NextStatus]_vars

\* the end of day run when the storage bucket refuses to remove files
NextCleanup ==
  \/ CustomerOrders
  \/ loadJobGroups
  \/ \E failed \in SUBSET JobIds : runEODRemoving(failed)

SpecCleanup == Init /\ [][NextCleanup]_vars

\* one document and its print settings: every recipe and page range the
\* form can be made to hold
NextPricing ==
  \/ /\ nextJob = 1
     /\ \E totalPages \in 1..MaxPages : handleFileUpload(<<totalPages>>, <<"ok">>)
  \/ \E recipe \in FormRecipes, customPages \in Strings :
       validateAndSubmit(recipe, customPages)
  \/ handleRecipeCancel

SpecPricing == Init /\ [][NextPricing]_vars

\* one document priced by either customer page, every page range of up to
\* MaxRangeLen characters
NextPages ==
  \/ /\ nextJob = 1
     /\ \E totalPages \in 1..MaxPages : handleFileUpload(<<totalPages>>, <<"ok">>)
  \/ \E recipe \in PageRecipes, customPages \in RangeStrings :
       validateAndSubmit(recipe, customPages)
  \/ handleRecipeCancel

SpecPages == InitPages /\ [][NextPages]_vars

\* what the record store and the bucket can answer to one file of an upload
Outcomes == {"ok", "jobGroupError", "uploadError", "jobError"}

\* orders on either customer page, the record store or the bucket failing
\* any of the requests of an upload
NextUpload ==
  \/ \E n \in 1..MaxBatch :
       \E pages \in [1..n -> PageCounts], outcomes \in [1..n -> Outcomes] :
         handleFileUpload(pages, outcomes)
  \/ \E recipe \in Recipes : validateAndSubmit(recipe, <<>>)
  \/ handleRecipeCancel
  \/ handleConfirmPayment
  \/ PaymentResetTimer

SpecUpload == InitPages /\ [][NextUpload]_vars

\* ------------------------------------------------------ status protocol
\* the two edges of the job status machine
ForwardEdge(from, to) ==
  \/ from = "queued" /\ to = "processing"
  \/ from = "processing" /\ to = "printed"

StoredStatus(jobId) == { j.status : j \in { x \in jobs : x.id = jobId } }

\* a request for jobId is taken out of the pending ones in this step
Served(jobId, newStatus) ==
  /\ [jobId |-> jobId, newStatus |-> newStatus] \in BagToSet(requests)
  /\ requests' = requests (-) SetToBag({[jobId |-> jobId, newStatus |-> newStatus]})

\* C1: the stored status of a job changes only along queued->processing and
\* processing->printed, and no status update of a job that is printed
\* succeeds.
C1_ForwardEdgesOnly ==
  [][ /\ \A j \in jobs, k \in jobs' :
           (j.id = k.id /\ j.status # k.status) => ForwardEdge(j.status, k.status)
      /\ \A jobId \in JobIds, newStatus \in Statuses :
           (Served(jobId, newStatus) /\ "printed" \in StoredStatus(jobId))
             => toast' = "Error" ]_vars

\* C2: when processing is requested for a job that a previous request has
\* already moved to processing, the request fails (error notification) and
\* leaves the stored jobs and the daily summary as they were.
C2_SecondProcessingFails ==
  [][ \A jobId \in JobIds :
        (Served(jobId, "processing") /\ "processing" \in StoredStatus(jobId))
          => /\ toast' = "Error"
             /\ jobs' = jobs
             /\ daily_summary' = daily_summary ]_vars

\* the status shown to the operator when the button for newStatus was
\* clicked
ExpectedStatus(newStatus) ==
  IF newStatus = "processing" THEN "queued" ELSE "processing"

\* C3: an update whose expected status (the one the operator saw) differs
\* from the stored status is rejected and leaves the stored jobs alone; in
\* particular a printed job is never written back to processing.
C3_CompareAndSwap ==
  [][ /\ \A jobId \in JobIds, newStatus \in Statuses :
           (Served(jobId, newStatus)
              /\ StoredStatus(jobId) # {}
              /\ ExpectedStatus(newStatus) \notin StoredStatus(jobId))
             => (toast' = "Error" /\ jobs' = jobs)
      /\ \A j \in jobs, k \in jobs' :
           (j.id = k.id /\ j.status = "printed") => k.status # "processing" ]_vars

\* ----------------------------------------------------------- accounting
\* <<total_users, total_docs, total_income_cents>> recorded for a date,
\* zeros when the date has no row
Totals(table, date) ==
  LET rows == SummaryRows(table, date) IN
  IF rows = <<>> THEN <<0, 0, 0>>
  ELSE <<rows[1].total_users, rows[1].total_docs, rows[1].total_income_cents>>

\* C4: when runEOD has completed, the groups it selected and their jobs are
\* gone from the record store, and each selected group and each of its jobs
\* has been added to a daily summary exactly once.
C4_ArchivedExactlyOnce ==
  [][ runEOD =>
        /\ \A g \in job_groups' : g.id \notin IdsOf(todayJobs)
        /\ \A j \in jobs' : j.job_group_id \notin IdsOf(todayJobs)
        /\ \A g \in IdsOf(todayJobs) : usersCounted'[g] = 1
        /\ \A j \in JobIdsOf(todayJobs) : counted'[j] = 1 ]_vars

\* C5: runEOD adds (number of groups, number of their jobs, sum of their
\* totals) to the row of today when there is one, and otherwise creates
\* the row with exactly these values.
C5_AdditiveUpsert ==
  [][ runEOD =>
        /\ Len(SummaryRows(daily_summary', today)) = 1
        /\ Totals(daily_summary', today) =
             << Totals(daily_summary, today)[1] + Len(todayJobs),
                Totals(daily_summary, today)[2] + DocsOf(todayJobs),
                Totals(daily_summary, today)[3] + IncomeOf(todayJobs) >> ]_vars

\* C6: every group that runEOD counts or deletes is paid and was created
\* today.
C6_SelectsPaidOfToday ==
  [][ runEOD =>
        /\ \A g \in job_groups :
             (\A h \in job_groups' : h.id # g.id)
               => (g.payment_status = "paid" /\ DateOf(g.created_at) = today)
        /\ \A i \in 1..Len(todayJobs) :
             \A g \in job_groups :
               g.id = todayJobs[i].id
                 => (g.payment_status = "paid" /\ DateOf(g.created_at) = today) ]_vars

\* C7: neither marking a job printed nor the end of day run adds a job to
\* the daily summaries that has been added before.
C7_NoJobCountedTwice ==
  [][ /\ runEOD => \A j \in JobIdsOf(todayJobs) : counted'[j] <= 1
      /\ \A jobId \in JobIds :
           StatusButton(jobId, "printed") => counted'[jobId] <= 1 ]_vars

C9_DeleteNeverIncrements ==
  [][ \A jobGroupId \in GroupIds :
        deleteJob(jobGroupId) =>
          \A f \in 1..3 :
            Totals(daily_summary', today)[f] <= Totals(daily_summary, today)[f] ]_vars

\* C10: marking a job printed adds its group to total_users only if the
\* group has not been added before: a group with several printed jobs is
\* one user.
C10_GroupCountedOnce ==
  [][ \A jobId \in JobIds :
        StatusButton(jobId, "printed") =>
          \A g \in GroupIds : usersCounted'[g] <= 1 ]_vars

\* -------------------------------------------------------------- payment
RECURSIVE PriceSum(_)
\* the sum of price_cents over a set of jobs rows
PriceSum(rows) ==
  IF rows = {} THEN 0
  ELSE LET j == CHOOSE x \in rows : TRUE
       IN Cents(j.price_cents) + PriceSum(rows \ {j})

\* the jobs rows of a group
JobsOfGroup(jobRows, groupId) == { j \in jobRows : j.job_group_id = groupId }

\* C11: when handleConfirmPayment has run, total_price_cents of the group it
\* paid is the sum of price_cents over the jobs stored for that group.
C11_TotalIsSumOfJobs ==
  [][ handleConfirmPayment =>
        \A g \in job_groups' :
          g.id = currentJobGroupId
            => g.total_price_cents = PriceSum(JobsOfGroup(jobs', g.id)) ]_vars

\* C12: no step changes total_price_cents of a job group that is paid.
C12_PaidTotalIsFrozen ==
  [][ \A g \in job_groups, h \in job_groups' :
        (g.id = h.id /\ g.payment_status = "paid")
          => h.total_price_cents = g.total_price_cents ]_vars

\* C13: a job group that is paid never becomes unpaid again, and
\* handleConfirmPayment is never applied to a group that is already paid.
C13_PaidExactlyOnce ==
  [][ /\ \A g \in job_groups, h \in job_groups' :
           (g.id = h.id /\ g.payment_status = "paid") => h.payment_status = "paid"
      /\ handleConfirmPayment =>
           \A g \in job_groups :
             g.id = currentJobGroupId => g.payment_status = "unpaid" ]_vars

\* C14: when handleConfirmPayment has run, the job of every file of the
\* order is paid; and a job is never paid while its group is not.
C14_JobsPaidWithGroup ==
  /\ [][ handleConfirmPayment =>
           \A f \in uploadedFiles :
             \A j \in jobs' : j.id = f.id => j.payment_status = "paid" ]_vars
  /\ [](\A j \in jobs :
          j.payment_status = "paid"
            => \E g \in job_groups :
                 g.id = j.job_group_id /\ g.payment_status = "paid")

\* C15: every jobs row references a job_groups row that exists, and when a
\* group is deleted no job of it stays behind.
C15_JobBelongsToGroup ==
  /\ [](\A j \in jobs : \E g \in job_groups : g.id = j.job_group_id)
  /\ [][ \A g \in job_groups :
           (\A h \in job_groups' : h.id # g.id)
             => JobsOfGroup(jobs', g.id) = {} ]_vars

\* --------------------------------------------------------------- queue
\* C16: the dashboard lists the job groups by ascending created_at.
C16_AscendingOrder ==
  \A i, k \in 1..Len(jobGroups) :
    i < k => Before(jobGroups[i].created_at, jobGroups[k].created_at)

\* ------------------------------------------------------------- cleanup
\* C17: whichever file removals fail during runEOD, the run goes on to its
\* end: the summary is written as it would be otherwise, every other file
\* of the selected jobs is removed, and the selected groups and their jobs
\* are deleted.
C17_RemovalFailureDoesNotBlock ==
  [][ \A failed \in SUBSET JobIds :
        runEODRemoving(failed) =>
          /\ daily_summary' = EODSummary(daily_summary, today, todayJobs)
          /\ documents' \cap (JobIdsOf(todayJobs) \ failed) = {}
          /\ \A g \in job_groups' : g.id \notin IdsOf(todayJobs)
          /\ \A j \in jobs' : j.job_group_id \notin IdsOf(todayJobs)
          /\ toast' = "EOD Complete" ]_vars

\* an end of day run has completed in which the removal of one file failed
\* (the file is still in the bucket, its job is gone) and the file of
\* another job it deleted was removed
C17_Witness ==
  /\ toast = "EOD Complete"
  /\ eodRemoveErrors # {}
  /\ eodRemoveErrors \subseteq documents
  /\ \A id \in eodRemoveErrors : \A j \in jobs : j.id # id
  /\ \E id \in JobIds \ eodRemoveErrors :
       /\ id < nextJob
       /\ id \notin documents
       /\ \A j \in jobs : j.id # id

\* ------------------------------------------------------------- pricing
\* C18: every price stored for a job, in the record store and in the
\* customer's session, is an integer that is not negative.
C18_PriceNonNegative ==
  /\ \A j \in jobs : j.price_cents # NaN /\ j.price_cents >= 0
  /\ \A f \in uploadedFiles : f.priceCents # NaN /\ f.priceCents >= 0

\* a token start-end of the page expression has start > end
HasDescendingRange(customPages) ==
  \E i \in 1..Len(PageTokens(customPages)) :
    LET page == PageTokens(customPages)[i]
        numbers == split(page, "-")
    IN /\ Len(numbers) = 2
       /\ Greater(Number(numbers[1]), Number(numbers[2]))

\* C19: a custom page expression that has a token start-end with
\* start > end is refused by "Save Settings": no job is ever stored with
\* such an expression, so none is priced from it.
C19_DescendingRangeRejected ==
  \A j \in jobs : j.pages # All => ~ HasDescendingRange(j.pages)

\* the numbers written in a page expression: its maximal runs of digits
PageNumbers(s) ==
  { DecimalValue(SubSeq(s, i, k)) :
      <<i, k>> \in { <<a, b>> \in (1..Len(s)) \X (1..Len(s)) :
                      /\ a <= b
                      /\ AllDigits(SubSeq(s, a, b))
                      /\ (a = 1 \/ ~ IsDigit(s[a - 1]))
                      /\ (b = Len(s) \/ ~ IsDigit(s[b + 1])) } }

\* C20: every number in the custom page expression stored for a job lies
\* within 1..totalPages of the job's document.
C20_PagesWithinDocument ==
  \A f \in uploadedFiles, j \in jobs :
    (j.id = f.id /\ j.pages # All)
      => \A n \in PageNumbers(j.pages) : 1 <= n /\ n <= f.totalPages

\* ----------------------------------------------------------- page count
\* a page number as it is written: digits and nothing else
IsPageNumber(t) == t # <<>> /\ AllDigits(t)

\* a token "start-end" of two page numbers
IsPageRange(t) ==
  \E i \in 1..Len(t) :
    /\ t[i] = "-"
    /\ IsPageNumber(SubSeq(t, 1, i - 1))
    /\ IsPageNumber(SubSeq(t, i + 1, Len(t)))

\* every comma separated token is a page number or a range
WellFormedPages(pages) ==
  \A i \in 1..Len(PageTokens(pages)) :
    IsPageNumber(PageTokens(pages)[i]) \/ IsPageRange(PageTokens(pages)[i])

\* the pages a page number or a range stands for
PagesOfToken(t) ==
  IF IsPageNumber(t) THEN 1
  ELSE LET i == CHOOSE k \in 1..Len(t) : t[k] = "-"
       IN DecimalValue(SubSeq(t, i + 1, Len(t))) - DecimalValue(SubSeq(t, 1, i - 1)) + 1

\* the page count of a recipe: totalPages for "all", the sum over the
\* tokens otherwise
PagesOfRecipe(pages, totalPages) ==
  IF pages = All THEN totalPages
  ELSE Sum([i \in 1..Len(PageTokens(pages)) |-> PagesOfToken(PageTokens(pages)[i])])

\* the recipe stored in a jobs row
RecipeOf(j) ==
  [pages |-> j.pages, colorMode |-> j.color_mode, sides |-> j.sides,
   copies |-> j.copies]

\* C21: the page count a job is priced from is totalPages when its pages
\* are "all", and otherwise the sum over the comma separated tokens of 1 for
\* a page number and end - start + 1 for a range: the stored price is the
\* price of printing all pages of a document that has this many pages.
C21_PageCount ==
  \A f \in uploadedFiles, j \in jobs :
    (j.id = f.id /\ f.status = "ready"
       /\ (j.pages = All \/ WellFormedPages(j.pages)))
      => j.price_cents =
           PriceOn(customerPage, [RecipeOf(j) EXCEPT !.pages = All],
                   PagesOfRecipe(j.pages, f.totalPages))

\* a job priced from an expression that lists a range of several pages and
\* a single page
C21_Witness ==
  \E f \in uploadedFiles, j \in jobs :
    /\ j.id = f.id /\ f.status = "ready"
    /\ j.pages # All /\ WellFormedPages(j.pages)
    /\ \E a, b \in 1..Len(PageTokens(j.pages)) :
         /\ IsPageNumber(PageTokens(j.pages)[a])
         /\ IsPageRange(PageTokens(j.pages)[b])
         /\ PagesOfToken(PageTokens(j.pages)[b]) > 1

\* ------------------------------------------------- price and the recipe
\* C22: with the rest of the recipe and the document fixed, the price does
\* not decrease when the copies grow within 1..100: one more copy of a
\* stored job never costs less than the price stored for it.
C22_MonotoneInCopies ==
  \A f \in uploadedFiles, j \in jobs :
    (j.id = f.id /\ f.status = "ready" /\ j.copies \in 1..99)
      => LET more == PriceOn(customerPage,
                             [RecipeOf(j) EXCEPT !.copies = j.copies + 1],
                             f.totalPages)
         IN ~ Less(more, j.price_cents)

\* C23: for every recipe the form accepts, printing in color costs strictly
\* more than printing the same recipe in black and white.
C23_ColorCostsMore ==
  \A f \in uploadedFiles, j \in jobs :
    (j.id = f.id /\ f.status = "ready")
      => LET color == PriceOn(customerPage,
                              [RecipeOf(j) EXCEPT !.colorMode = "color"],
                              f.totalPages)
             bw == PriceOn(customerPage, [RecipeOf(j) EXCEPT !.colorMode = "bw"],
                           f.totalPages)
         IN /\ j.price_cents \in {color, bw}
            /\ (color # NaN /\ bw # NaN) => color > bw

\* the platform fee of CustomerApp.tsx, in paise
PlatformFee == 100

\* the page count calculatePrice works with
PageCountOf(recipe, totalPages) ==
  IF recipe.pages = All THEN totalPages ELSE CountTokens(PageTokens(recipe.pages))

\* round(basePerPageRate * pageCount * copies * sidesMultiplier) with the
\* rates and the multiplier of the given customer page: 1000 or 150 a page
\* and 1.5 for double sided in CustomerApp.tsx, 20 or 10 a page and 0.9 in
\* Index.tsx
PrintingCostOn(page, recipe, pageCount) ==
  LET rate == IF page = Index
              THEN (IF recipe.colorMode = "color" THEN 20 ELSE 10)
              ELSE (IF recipe.colorMode = "color" THEN 1000 ELSE 150)
      single == rate * pageCount * recipe.copies
  IN IF recipe.sides = "single" THEN single
     ELSE IF page = Index THEN RoundTenth(9 * single)
     ELSE RoundHalf(3 * single)

\* C24: every price computed for a job is the rounded printing cost plus the
\* platform fee, added once whatever the page count and the copies are, in
\* the pricing of either customer page.
C24_FeeOncePerJob ==
  \A f \in uploadedFiles, j \in jobs :
    (j.id = f.id /\ f.status = "ready"
       /\ PageCountOf(RecipeOf(j), f.totalPages) # NaN)
      => j.price_cents =
           PrintingCostOn(customerPage, RecipeOf(j),
                          PageCountOf(RecipeOf(j), f.totalPages)) + PlatformFee

\* --------------------------------------------------------- failed upload
\* the iteration for a file ends in the catch block
UploadFails(closureGroupId, outcome) ==
  \/ outcome \in {"uploadError", "jobError"}
  \/ outcome = "jobGroupError" /\ closureGroupId = NULL

\* C25: when the upload of a file to the bucket or the insert of its jobs
\* row fails, handleFileUpload leaves no jobs row of that file behind and
\* the file is not in uploadedFiles.
C25_NoRowForFailedUpload ==
  [][ \A n \in 1..MaxBatch :
        \A pages \in [1..n -> PageCounts], outcomes \in [1..n -> Outcomes] :
          handleFileUpload(pages, outcomes) =>
            \A i \in 1..n :
              UploadFails(currentJobGroupId, outcomes[i]) =>
                /\ \A j \in jobs' : j.id # nextJob + i - 1
                /\ \A f \in uploadedFiles' : f.id # nextJob + i - 1 ]_vars

\* one file whose insert into jobs failed after it had reached the bucket,
\* one file whose upload to the bucket failed, and one file that went
\* through
C25_Witness ==
  /\ \E id \in documents :
       (\A j \in jobs : j.id # id) /\ (\A f \in uploadedFiles : f.id # id)
  /\ \E id \in 1..(nextJob - 1) :
       id \notin documents /\ (\A j \in jobs : j.id # id)
  /\ \E f \in uploadedFiles : \E j \in jobs : j.id = f.id

\* ------------------------------------------------------ dashboard totals
\* C26: the revenue the dashboard shows is the sum of price_cents over the
\* jobs of the groups it shows, the number of jobs it shows is the number
\* of those jobs, and the number of pending jobs is the number of those
\* that are queued.
C26_RevenueIsSumOfShownJobs ==
  /\ stats.totalRevenue = PriceSum(CachedJobs)
  /\ stats.totalJobs = Cardinality(CachedJobs)
  /\ stats.pendingJobs = Cardinality({ job \in CachedJobs : job.status = "queued" })

\* ------------------------------------------------- rejected status update
\* C27: when the record store rejects a status update, the statuses the
\* dashboard shows, the stored jobs and the daily summaries are what they
\* were before the request, and nothing is counted for it.
C27_RejectedUpdateChangesNothing ==
  [][ \A jobId \in JobIds, newStatus \in Statuses :
        (Served(jobId, newStatus) /\ toast' = "Error")
          => /\ jobGroups' = jobGroups
             /\ jobs' = jobs
             /\ daily_summary' = daily_summary
             /\ dailySummaries' = dailySummaries
             /\ counted' = counted
             /\ usersCounted' = usersCounted ]_vars

\* the record store has rejected the last update, on the dashboard that
\* accumulates printed jobs, while a job is shown and stored as processing
\* and no request is under way
C27_Witness ==
  /\ toast = "Error"
  /\ variant = PPP
  /\ requests = EmptyBag
  /\ \E job \in CachedJobs :
       /\ job.status = "processing"
       /\ StoredStatus(job.id) = {"processing"}
  /\ daily_summary = <<>>

\* ------------------------------------------------------ one group an order
\* C28: an order has one job group: a step creates a group only when the
\* order has none yet, and then only one, and the job of every further file
\* of the order, the later files of one upload included, is attached to the
\* group of the order.
C28_OneGroupPerOrder ==
  [][ /\ nextGroup' <= nextGroup + 1
      /\ nextGroup' > nextGroup => currentJobGroupId = NULL
      /\ \A j \in jobs' :
           (j.id >= nextJob /\ (currentJobGroupId # NULL \/ j.id > nextJob))
             => j.job_group_id = currentJobGroupId' ]_vars

\* ------------------------------------------------- end of day and the store
\* the rows a step deletes from the record store
DeletedGroups == { g \in job_groups : \A h \in job_groups' : h.id # g.id }
DeletedJobs == { j \in jobs : \A k \in jobs' : k.id # j.id }

RECURSIVE TotalSum(_)
\* the sum of total_price_cents over a set of job_groups rows
TotalSum(rows) ==
  IF rows = {} THEN 0
  ELSE LET g == CHOOSE x \in rows : TRUE
       IN Cents(g.total_price_cents) + TotalSum(rows \ {g})

\* C29: the groups and jobs runEOD counts are exactly the ones it deletes
\* from the record store, whatever the customer has done since the
\* dashboard loaded: the jobs it deletes are the jobs of the groups it
\* selected, their number is the number of documents it adds, and the
\* income it adds is the sum of the totals stored for the groups it deletes.
C29_CountsWhatItDeletes ==
  [][ runEOD =>
        /\ { g.id : g \in DeletedGroups } = IdsOf(todayJobs)
        /\ { j.id : j \in DeletedJobs } = JobIdsOf(todayJobs)
        /\ DocsOf(todayJobs) = Cardinality(DeletedJobs)
        /\ IncomeOf(todayJobs) = TotalSum(DeletedGroups) ]_vars

\* -------------------------------------------------------- order summary
RECURSIVE PrintingCostSum(_)
\* the sum, over files whose jobs are stored, of the printing cost of the
\* job without the platform fee
PrintingCostSum(files) ==
  IF files = {} THEN 0
  ELSE LET f == CHOOSE x \in files : TRUE
           j == CHOOSE x \in jobs : x.id = f.id
       IN PrintingCostOn(customerPage, RecipeOf(j),
                         PageCountOf(RecipeOf(j), f.totalPages))
            + PrintingCostSum(files \ {f})

\* C30: when OrderSummary is shown for the ready files of an order, its
\* "Printing Cost" is the sum of the printing costs of their jobs without
\* platform fees, and its "Platform Fee" is the sum of the platform fees
\* that the total contains.
C30_BreakdownMatchesJobs ==
  (/\ canProceedToPayment
   /\ totalCentsOf(readyFiles) # NaN
   /\ \A f \in readyFiles : \E j \in jobs : j.id = f.id)
    => LET shown == OrderSummary(totalCentsOf(readyFiles)) IN
       /\ shown.printingCost = PrintingCostSum(readyFiles)
       /\ shown.platformFee = shown.totalCost - PrintingCostSum(readyFiles)
====
